---- MODULE Spec2Model ----
(***************************************************************************)
(* The timer state machine of core.py (OishiiT): the process-wide          *)
(* timer_state dictionary, the clock it reads, and one action per          *)
(* function the HTTP layer (server.py) calls.                              *)
(*                                                                         *)
(* Time.  time.time() is a float number of seconds.  The model keeps       *)
(* every timestamp as an integer number of ticks, TicksPerMs ticks to the  *)
(* millisecond, so that int((a - b) * 1000) is a real truncation and not   *)
(* the identity.  All clock reads made by one call return the same value   *)
(* (a call is one instant).  The clock counts from local midnight of the   *)
(* first modelled day, so that the time of day is now % DayTicks.          *)
(*                                                                         *)
(* None.  An optional value is a tuple: <<>> is None and <<v>> holds v.    *)
(***************************************************************************)
EXTENDS Integers, Sequences, FiniteSets, TLC

\* ------------------------------------------------------------- bounds
\* Clock resolution: ticks per millisecond.
TicksPerMs == 2
\* The clock runs from ClockStart for HorizonHolds freeze-hold durations.
HorizonHolds == 2
\* Sub-second offsets of the clock are kept within MaxSubTicks ticks.
MaxSubTicks == 2
\* A run makes at most MaxCommands state-changing calls (reads are not counted).
MaxCommands == 3

TicksPerSec == 1000 * TicksPerMs
DayTicks == 86400 * TicksPerSec
\* The first instant of the model: 14:29:50 local time.
ClockStart == ((14 * 60 + 29) * 60 + 50) * TicksPerSec

\* ---------------------------------------------------------- constants
AMBER_THRESHOLD == 60000
FROZEN_DURATION_SECONDS == 10

\* ------------------------------------------------------------ optionals
None == <<>>
Some(v) == <<v>>
Val(o) == o[1]
\* Python truthiness of an optional number: None and 0 are falsy.
Truthy(o) == o # None /\ Val(o) # 0

\* int(x): truncation toward zero of a tick count to whole milliseconds.
IntMs(ticks) ==
    IF ticks >= 0 THEN ticks \div TicksPerMs ELSE -((-ticks) \div TicksPerMs)

Max(a, b) == IF a >= b THEN a ELSE b

\* ------------------------------------------------------------- state
VARIABLES
    timer_state,   \* core.timer_state (the timer fields of the dictionary)
    now,           \* the clock, in ticks
    last,          \* the call just made: its name, argument, return value and
                   \* the timer_state it found (pre)
    started_ok,    \* TRUE when the most recent call was a start_timer that
                   \* returned True (kept while time passes)
    hold,          \* set by a cancel of a running timer, until the next command:
                   \* the instant of the cancel and the live remaining time and
                   \* colour at that instant
    ncmd,          \* the number of commands made so far
    mut,           \* a request handler that is part-way through a state-changing
                   \* call: its position (source line), call stack and locals
    rdr,           \* a request handler that is part-way through
                   \* get_timer_state_details: position, stack, locals, and the
                   \* values of the timer fields it has read
    job            \* update_schedules: the step the scrape has reached, its
                   \* loop variables, the week files on disk and its result

vars == <<timer_state, now, last, started_ok, hold, ncmd, mut, rdr, job>>

\* config.DEFAULT_TIMER_STATE plus the three freeze keys added by core.py.
INITIAL_STATE ==
    [ total_duration_ms   |-> 0,
      start_time          |-> None,
      target_end_time_ts  |-> None,
      allow_negative      |-> TRUE,
      mode                |-> "Duration",
      frozen_end_time_ts  |-> None,
      frozen_remaining_ms |-> 0,
      frozen_color        |-> "STOPPED" ]

\* ---------------------------------------------------- core logic helpers
clear_frozen_display(s) ==
    [s EXCEPT !.frozen_end_time_ts = None,
              !.frozen_remaining_ms = 0,
              !.frozen_color = "STOPPED"]

\* The effective total of get_running_color.  Only its sign is used, so the
\* Absolute-mode value (target - start) * 1000 is kept in ticks.
EffectiveTotal(s) ==
    IF s.mode = "Absolute" /\ Truthy(s.target_end_time_ts) /\ Truthy(s.start_time)
    THEN Val(s.target_end_time_ts) - Val(s.start_time)
    ELSE s.total_duration_ms

\* get_running_color with a fault: the amber threshold itself is green.
get_running_color_strict(s, remaining_ms) ==
    IF remaining_ms < 0 THEN "RED"
    ELSE IF EffectiveTotal(s) <= 0 THEN "GREEN"
    ELSE IF remaining_ms < AMBER_THRESHOLD THEN "AMBER"
    ELSE "GREEN"

get_running_color(s, remaining_ms) ==
    IF remaining_ms < 0 THEN "RED"
    ELSE IF EffectiveTotal(s) <= 0 THEN "GREEN"
    ELSE IF remaining_ms <= AMBER_THRESHOLD THEN "AMBER"
    ELSE "GREEN"

\* The live remaining time of a running timer at instant t (lines 87-94 of
\* calculate_remaining_ms, repeated at lines 204-209 of cancel_timer).
LiveRemaining(s, t) ==
    IF s.mode = "Duration"
    THEN s.total_duration_ms - IntMs(t - Val(s.start_time))
    ELSE IF s.mode = "Absolute" /\ Truthy(s.target_end_time_ts)
    THEN IntMs(Val(s.target_end_time_ts) - t)
    ELSE 0

IsFrozenAt(s, t) ==
    Truthy(s.frozen_end_time_ts) /\ t < Val(s.frozen_end_time_ts)

\* calculate_remaining_ms with a fault: the auto-freeze leaves start_time set.
calculate_remaining_ms_keeps_running(s, t) ==
    IF IsFrozenAt(s, t)
    THEN [st |-> s, ret |-> s.frozen_remaining_ms]
    ELSE IF s.start_time = None
    THEN [st |-> s, ret |-> s.total_duration_ms]
    ELSE LET remaining == LiveRemaining(s, t) IN
         IF ~s.allow_negative /\ remaining < 0
         THEN [st |-> [s EXCEPT !.frozen_remaining_ms = 0,
                                !.frozen_color = "RED",
                                !.frozen_end_time_ts =
                                    Some(t + FROZEN_DURATION_SECONDS * TicksPerSec)],
               ret |-> 0]
         ELSE [st |-> s, ret |-> remaining]

\* calculate_remaining_ms with a fault: the auto-freeze ignores allow_negative.
calculate_remaining_ms_always_freezes(s, t) ==
    IF IsFrozenAt(s, t)
    THEN [st |-> s, ret |-> s.frozen_remaining_ms]
    ELSE IF s.start_time = None
    THEN [st |-> s, ret |-> s.total_duration_ms]
    ELSE LET remaining == LiveRemaining(s, t) IN
         IF remaining < 0
         THEN [st |-> [s EXCEPT !.frozen_remaining_ms = 0,
                                !.frozen_color = "RED",
                                !.frozen_end_time_ts =
                                    Some(t + FROZEN_DURATION_SECONDS * TicksPerSec),
                                !.start_time = None],
               ret |-> 0]
         ELSE [st |-> s, ret |-> remaining]

\* calculate_remaining_ms with a fault: the auto-freeze also drops the target.
calculate_remaining_ms_drops_target(s, t) ==
    IF IsFrozenAt(s, t)
    THEN [st |-> s, ret |-> s.frozen_remaining_ms]
    ELSE IF s.start_time = None
    THEN [st |-> s, ret |-> s.total_duration_ms]
    ELSE LET remaining == LiveRemaining(s, t) IN
         IF ~s.allow_negative /\ remaining < 0
         THEN [st |-> [s EXCEPT !.frozen_remaining_ms = 0,
                                !.frozen_color = "RED",
                                !.frozen_end_time_ts =
                                    Some(t + FROZEN_DURATION_SECONDS * TicksPerSec),
                                !.start_time = None,
                                !.target_end_time_ts = None],
               ret |-> 0]
         ELSE [st |-> s, ret |-> remaining]

\* calculate_remaining_ms with a fault: the auto-freeze also unloads the timer.
calculate_remaining_ms_unloads(s, t) ==
    IF IsFrozenAt(s, t)
    THEN [st |-> s, ret |-> s.frozen_remaining_ms]
    ELSE IF s.start_time = None
    THEN [st |-> s, ret |-> s.total_duration_ms]
    ELSE LET remaining == LiveRemaining(s, t) IN
         IF ~s.allow_negative /\ remaining < 0
         THEN [st |-> [s EXCEPT !.frozen_remaining_ms = 0,
                                !.frozen_color = "RED",
                                !.frozen_end_time_ts =
                                    Some(t + FROZEN_DURATION_SECONDS * TicksPerSec),
                                !.start_time = None,
                                !.total_duration_ms = 0],
               ret |-> 0]
         ELSE [st |-> s, ret |-> remaining]

\* calculate_remaining_ms: the state it leaves and the value it returns.
calculate_remaining_ms(s, t) ==
    IF IsFrozenAt(s, t)
    THEN [st |-> s, ret |-> s.frozen_remaining_ms]
    ELSE IF s.start_time = None
    THEN [st |-> s, ret |-> s.total_duration_ms]
    ELSE LET remaining == LiveRemaining(s, t) IN
         IF ~s.allow_negative /\ remaining < 0
         THEN [st |-> [s EXCEPT !.frozen_remaining_ms = 0,
                                !.frozen_color = "RED",
                                !.frozen_end_time_ts =
                                    Some(t + FROZEN_DURATION_SECONDS * TicksPerSec),
                                !.start_time = None],
               ret |-> 0]
         ELSE [st |-> s, ret |-> remaining]

get_status_color(s, t, remaining_ms) ==
    IF IsFrozenAt(s, t) THEN s.frozen_color
    ELSE IF s.start_time = None THEN "STOPPED"
    ELSE get_running_color(s, remaining_ms)

\* datetime.now().strftime("%H:%M:%S"), as <<hours, minutes, seconds>>.
TimeOfDay(t) ==
    LET secs == (t % DayTicks) \div TicksPerSec IN
    << secs \div 3600, (secs \div 60) % 60, secs % 60 >>

\* get_timer_state_details with a fault: an expired freeze is never cleared.
get_timer_state_details_no_expiry(s, t) ==
    LET c == calculate_remaining_ms(s, t)
        s2 == c.st
        is_frozen == s2.frozen_end_time_ts # None
        is_running == s2.start_time # None
    IN [st |-> s2,
        ret |-> [ remaining_ms |-> c.ret,
                  color |-> IF is_running \/ is_frozen
                            THEN get_status_color(s2, t, c.ret) ELSE "STOPPED",
                  is_running |-> is_running,
                  is_frozen |-> is_frozen,
                  allow_negative |-> s2.allow_negative,
                  total_duration_ms |-> s2.total_duration_ms,
                  server_time_of_day |-> TimeOfDay(t),
                  mode |-> s2.mode ]]

\* get_timer_state_details with a fault: the freeze expires only after its end.
get_timer_state_details_late_expiry(s, t) ==
    LET s1 == IF Truthy(s.frozen_end_time_ts) /\ t > Val(s.frozen_end_time_ts)
              THEN clear_frozen_display(s) ELSE s
        c == calculate_remaining_ms(s1, t)
        s2 == c.st
        is_frozen == s2.frozen_end_time_ts # None
        is_running == s2.start_time # None
    IN [st |-> s2,
        ret |-> [ remaining_ms |-> c.ret,
                  color |-> IF is_running \/ is_frozen
                            THEN get_status_color(s2, t, c.ret) ELSE "STOPPED",
                  is_running |-> is_running,
                  is_frozen |-> is_frozen,
                  allow_negative |-> s2.allow_negative,
                  total_duration_ms |-> s2.total_duration_ms,
                  server_time_of_day |-> TimeOfDay(t),
                  mode |-> s2.mode ]]

get_timer_state_details(s, t) ==
    LET s1 == IF Truthy(s.frozen_end_time_ts) /\ t >= Val(s.frozen_end_time_ts)
              THEN clear_frozen_display(s) ELSE s
        c == calculate_remaining_ms(s1, t)
        s2 == c.st
        is_frozen == s2.frozen_end_time_ts # None
        is_running == s2.start_time # None
    IN [st |-> s2,
        ret |-> [ remaining_ms |-> c.ret,
                  color |-> IF is_running \/ is_frozen
                            THEN get_status_color(s2, t, c.ret) ELSE "STOPPED",
                  is_running |-> is_running,
                  is_frozen |-> is_frozen,
                  allow_negative |-> s2.allow_negative,
                  total_duration_ms |-> s2.total_duration_ms,
                  server_time_of_day |-> TimeOfDay(t),
                  mode |-> s2.mode ]]

\* get_timer_state_details reads the clock anew at each test: t_expire at
\* line 120, t_calc inside calculate_remaining_ms (lines 79 and 87, of which a
\* call uses one: a timer is never both frozen and running), t_color inside
\* get_status_color (line 109) and for server_time_of_day.
get_timer_state_details_spanning(s, t_expire, t_calc, t_color) ==
    LET s1 == IF Truthy(s.frozen_end_time_ts)
                 /\ t_expire >= Val(s.frozen_end_time_ts)
              THEN clear_frozen_display(s) ELSE s
        c == calculate_remaining_ms(s1, t_calc)
        s2 == c.st
        is_frozen == s2.frozen_end_time_ts # None
        is_running == s2.start_time # None
    IN [st |-> s2,
        ret |-> [ remaining_ms |-> c.ret,
                  color |-> IF is_running \/ is_frozen
                            THEN get_status_color(s2, t_color, c.ret)
                            ELSE "STOPPED",
                  is_running |-> is_running,
                  is_frozen |-> is_frozen,
                  allow_negative |-> s2.allow_negative,
                  total_duration_ms |-> s2.total_duration_ms,
                  server_time_of_day |-> TimeOfDay(t_color),
                  mode |-> s2.mode ]]

\* ------------------------------------------------------------- actions
\* start_timer with a fault: a running timer is restarted.
start_timer_restarts(s, t) ==
    IF s.total_duration_ms > 0 \/ Truthy(s.target_end_time_ts)
    THEN [st |-> [clear_frozen_display(s) EXCEPT !.start_time = Some(t)],
          ret |-> TRUE]
    ELSE [st |-> s, ret |-> FALSE]

\* start_timer with a fault: the frozen display is not cleared on start.
start_timer_keeps_freeze(s, t) ==
    IF s.total_duration_ms > 0 \/ Truthy(s.target_end_time_ts)
    THEN [st |-> IF ~Truthy(s.start_time)
                 THEN [s EXCEPT !.start_time = Some(t)]
                 ELSE s,
          ret |-> TRUE]
    ELSE [st |-> s, ret |-> FALSE]

\* start_timer with a fault: a refused start clears the frozen display.
start_timer_refusal_clears(s, t) ==
    IF s.total_duration_ms > 0 \/ Truthy(s.target_end_time_ts)
    THEN [st |-> IF ~Truthy(s.start_time)
                 THEN [clear_frozen_display(s) EXCEPT !.start_time = Some(t)]
                 ELSE s,
          ret |-> TRUE]
    ELSE [st |-> clear_frozen_display(s), ret |-> FALSE]

start_timer(s, t) ==
    IF s.total_duration_ms > 0 \/ Truthy(s.target_end_time_ts)
    THEN [st |-> IF ~Truthy(s.start_time)
                 THEN [clear_frozen_display(s) EXCEPT !.start_time = Some(t)]
                 ELSE s,
          ret |-> TRUE]
    ELSE [st |-> s, ret |-> FALSE]

\* cancel_timer with a fault: a negative final value is frozen as it is even
\* when negative time is not allowed.
cancel_timer_no_clamp(s, t) ==
    LET was_running == s.start_time # None
        final_ms == IF was_running THEN LiveRemaining(s, t) ELSE 0
        final_color == IF was_running THEN get_running_color(s, final_ms)
                       ELSE "STOPPED"
        reset == clear_frozen_display(
                     [s EXCEPT !.total_duration_ms = 0,
                               !.start_time = None,
                               !.target_end_time_ts = None,
                               !.mode = "Duration"])
    IN  IF was_running
        THEN [reset EXCEPT
                !.frozen_remaining_ms = final_ms,
                !.frozen_color = final_color,
                !.frozen_end_time_ts =
                    Some(t + FROZEN_DURATION_SECONDS * TicksPerSec)]
        ELSE reset

\* cancel_timer with a fault: the reset keeps the loaded duration.
cancel_timer_keeps_total(s, t) ==
    LET was_running == s.start_time # None
        final_ms == IF was_running THEN LiveRemaining(s, t) ELSE 0
        final_color == IF was_running THEN get_running_color(s, final_ms)
                       ELSE "STOPPED"
        reset == clear_frozen_display(
                     [s EXCEPT !.start_time = None,
                               !.target_end_time_ts = None,
                               !.mode = "Duration"])
    IN  IF was_running
        THEN [reset EXCEPT
                !.frozen_remaining_ms =
                    IF ~s.allow_negative /\ final_ms < 0 THEN 0 ELSE final_ms,
                !.frozen_color = final_color,
                !.frozen_end_time_ts =
                    Some(t + FROZEN_DURATION_SECONDS * TicksPerSec)]
        ELSE reset

cancel_timer(s, t) ==
    LET was_running == s.start_time # None
        final_ms == IF was_running THEN LiveRemaining(s, t) ELSE 0
        final_color == IF was_running THEN get_running_color(s, final_ms)
                       ELSE "STOPPED"
        reset == clear_frozen_display(
                     [s EXCEPT !.total_duration_ms = 0,
                               !.start_time = None,
                               !.target_end_time_ts = None,
                               !.mode = "Duration"])
    IN  IF was_running
        THEN [reset EXCEPT
                !.frozen_remaining_ms =
                    IF ~s.allow_negative /\ final_ms < 0 THEN 0 ELSE final_ms,
                !.frozen_color = final_color,
                !.frozen_end_time_ts =
                    Some(t + FROZEN_DURATION_SECONDS * TicksPerSec)]
        ELSE reset

\* set_timer_duration_seconds with a fault: the freeze is not cleared first.
set_timer_duration_seconds_keeps_freeze(s, t, seconds) ==
    IF seconds <= 0
    THEN [st |-> cancel_timer(s, t), ret |-> TRUE]
    ELSE [st |-> [s EXCEPT !.total_duration_ms = seconds * 1000,
                           !.start_time = Some(t),
                           !.target_end_time_ts = None,
                           !.mode = "Duration"],
          ret |-> TRUE]

\* set_timer_duration_seconds with a fault: only a negative value cancels.
set_timer_duration_seconds_zero_loads(s, t, seconds) ==
    LET s1 == clear_frozen_display(s) IN
    IF seconds < 0
    THEN [st |-> cancel_timer(s1, t), ret |-> TRUE]
    ELSE [st |-> [s1 EXCEPT !.total_duration_ms = seconds * 1000,
                            !.start_time = Some(t),
                            !.target_end_time_ts = None,
                            !.mode = "Duration"],
          ret |-> TRUE]

set_timer_duration_seconds(s, t, seconds) ==
    LET s1 == clear_frozen_display(s) IN
    IF seconds <= 0
    THEN [st |-> cancel_timer(s1, t), ret |-> TRUE]
    ELSE [st |-> [s1 EXCEPT !.total_duration_ms = seconds * 1000,
                            !.start_time = Some(t),
                            !.target_end_time_ts = None,
                            !.mode = "Duration"],
          ret |-> TRUE]

\* --- parsing of "HH:MM": a string is a tuple of one-character strings.
DigitChars == <<"0", "1", "2", "3", "4", "5", "6", "7", "8", "9">>
IsDigit(c) == \E i \in 1..Len(DigitChars) : DigitChars[i] = c
DigitVal(c) == (CHOOSE i \in 1..Len(DigitChars) : DigitChars[i] = c) - 1

\* str.split(sep): the parts between the separators (always at least one).
RECURSIVE Split(_, _)
Split(str, sep) ==
    IF \A i \in 1..Len(str) : str[i] # sep
    THEN <<str>>
    ELSE LET i == CHOOSE k \in 1..Len(str) :
                      str[k] = sep /\ \A j \in 1..(k - 1) : str[j] # sep
         IN <<SubSeq(str, 1, i - 1)>> \o Split(SubSeq(str, i + 1, Len(str)), sep)

RECURSIVE DigitsValue(_)
DigitsValue(ds) ==
    IF ds = <<>> THEN 0
    ELSE 10 * DigitsValue(SubSeq(ds, 1, Len(ds) - 1)) + DigitVal(ds[Len(ds)])

\* int(part): an optional sign and one or more digits; None stands for ValueError.
ParseInt(part) ==
    LET signed == part # <<>> /\ part[1] \in {"-", "+"}
        ds == IF signed THEN Tail(part) ELSE part
    IN  IF ds # <<>> /\ \A i \in 1..Len(ds) : IsDigit(ds[i])
        THEN Some(IF signed /\ part[1] = "-" THEN -DigitsValue(ds) ELSE DigitsValue(ds))
        ELSE None

\* h, m = map(int, target_time_str.split(':')) followed by
\* now.replace(hour=h, minute=m, ...): None when any step raises.
ParseTime(target_time_str) ==
    IF target_time_str = None THEN None
    ELSE LET parts == Split(Val(target_time_str), ":") IN
         IF Len(parts) # 2 THEN None
         ELSE LET h == ParseInt(parts[1])
                  m == ParseInt(parts[2])
              IN IF h = None \/ m = None THEN None
                 ELSE IF Val(h) \in 0..23 /\ Val(m) \in 0..59
                 THEN Some([h |-> Val(h), m |-> Val(m)])
                 ELSE None

\* set_absolute_target_time with a fault: a target equal to now is not rolled
\* to the next day.
set_absolute_target_time_rolls_late(s, t, target_time_str) ==
    LET s1 == clear_frozen_display(s)
        hm == ParseTime(target_time_str)
    IN  IF hm = None
        THEN [st |-> s1, ret |-> FALSE]
        ELSE LET today == t - (t % DayTicks)
                 at == today + (Val(hm).h * 3600 + Val(hm).m * 60) * TicksPerSec
                 target == IF at < t THEN at + DayTicks ELSE at
             IN [st |-> [s1 EXCEPT !.target_end_time_ts = Some(target),
                                   !.start_time = Some(t),
                                   !.total_duration_ms = IntMs(target - t),
                                   !.mode = "Absolute"],
                 ret |-> TRUE]

\* Local days are taken to be 24 hours long (no change of UTC offset).
set_absolute_target_time(s, t, target_time_str) ==
    LET s1 == clear_frozen_display(s)
        hm == ParseTime(target_time_str)
    IN  IF hm = None
        THEN [st |-> s1, ret |-> FALSE]
        ELSE LET today == t - (t % DayTicks)
                 at == today + (Val(hm).h * 3600 + Val(hm).m * 60) * TicksPerSec
                 target == IF at <= t THEN at + DayTicks ELSE at
             IN [st |-> [s1 EXCEPT !.target_end_time_ts = Some(target),
                                   !.start_time = Some(t),
                                   !.total_duration_ms = IntMs(target - t),
                                   !.mode = "Absolute"],
                 ret |-> TRUE]

\* adjust_timer with a fault: the freeze is not cleared first.
adjust_timer_keeps_freeze(s, seconds) ==
    [ret |-> TRUE,
     st |->
        IF ~Truthy(s.start_time)
        THEN [s EXCEPT !.total_duration_ms =
                           Max(0, s.total_duration_ms + seconds * 1000)]
        ELSE IF s.mode = "Duration"
        THEN [s EXCEPT !.start_time =
                           Some(Val(s.start_time) + seconds * TicksPerSec)]
        ELSE IF s.mode = "Absolute" /\ Truthy(s.target_end_time_ts)
        THEN LET target == Val(s.target_end_time_ts) + seconds * TicksPerSec IN
             [s EXCEPT !.target_end_time_ts = Some(target),
                       !.total_duration_ms = IntMs(target - Val(s.start_time))]
        ELSE s]

\* adjust_timer with a fault: a running Duration timer has its total changed
\* instead of its start time.
adjust_timer_moves_total(s, seconds) ==
    LET s1 == clear_frozen_display(s) IN
    [ret |-> TRUE,
     st |->
        IF ~Truthy(s1.start_time)
        THEN [s1 EXCEPT !.total_duration_ms =
                            Max(0, s1.total_duration_ms + seconds * 1000)]
        ELSE IF s1.mode = "Duration"
        THEN [s1 EXCEPT !.total_duration_ms =
                            s1.total_duration_ms + seconds * 1000]
        ELSE IF s1.mode = "Absolute" /\ Truthy(s1.target_end_time_ts)
        THEN LET target == Val(s1.target_end_time_ts) + seconds * TicksPerSec IN
             [s1 EXCEPT !.target_end_time_ts = Some(target),
                        !.total_duration_ms = IntMs(target - Val(s1.start_time))]
        ELSE s1]

\* adjust_timer with a fault: the Absolute branch moves the target but does not
\* recompute the total.
adjust_timer_stale_total(s, seconds) ==
    LET s1 == clear_frozen_display(s) IN
    [ret |-> TRUE,
     st |->
        IF ~Truthy(s1.start_time)
        THEN [s1 EXCEPT !.total_duration_ms =
                            Max(0, s1.total_duration_ms + seconds * 1000)]
        ELSE IF s1.mode = "Duration"
        THEN [s1 EXCEPT !.start_time =
                            Some(Val(s1.start_time) + seconds * TicksPerSec)]
        ELSE IF s1.mode = "Absolute" /\ Truthy(s1.target_end_time_ts)
        THEN LET target == Val(s1.target_end_time_ts) + seconds * TicksPerSec IN
             [s1 EXCEPT !.target_end_time_ts = Some(target)]
        ELSE s1]

adjust_timer(s, seconds) ==
    LET s1 == clear_frozen_display(s) IN
    [ret |-> TRUE,
     st |->
        IF ~Truthy(s1.start_time)
        THEN [s1 EXCEPT !.total_duration_ms =
                            Max(0, s1.total_duration_ms + seconds * 1000)]
        ELSE IF s1.mode = "Duration"
        THEN [s1 EXCEPT !.start_time =
                            Some(Val(s1.start_time) + seconds * TicksPerSec)]
        ELSE IF s1.mode = "Absolute" /\ Truthy(s1.target_end_time_ts)
        THEN LET target == Val(s1.target_end_time_ts) + seconds * TicksPerSec IN
             [s1 EXCEPT !.target_end_time_ts = Some(target),
                        !.total_duration_ms = IntMs(target - Val(s1.start_time))]
        ELSE s1]

toggle_negative(s, allow) == [s EXCEPT !.allow_negative = allow]

\* -------------------------------------------------------------- inputs
Seconds == {-1, 0, 10, 100}
Deltas == {-10, 30}
RemainingInputs == {-1, 20000, 20001, 60000, 60001}
TimeStrings ==
    { None,
      Some(<<"1", "4", ":", "3", "0">>),
      Some(<<"a", "b", "c">>),
      Some(<<"2", "5", ":", "0", "0">>),
      Some(<<"1", "4", ":", "6", "0">>),
      Some(<<"1", "4", ":", "3", "0", ":", "0", "0">>) }
HoldTicks == FROZEN_DURATION_SECONDS * TicksPerSec
TickSteps == {1, HoldTicks}

\* ----------------------------------------------------- handler threads
\* A handler that has not been called: its locals hold the values the code
\* gives them before their first use.
MutIdle ==
    [ status |-> "idle", pc |-> 0, stack |-> <<>>, op |-> "none", arg |-> None,
      pre |-> INITIAL_STATE, ret |-> None,
      was_running |-> FALSE, elapsed |-> 0, final_ms |-> 0,
      final_color |-> "STOPPED", target |-> 0 ]

NoReads ==
    [ mode |-> {}, start_time |-> {}, target_end_time_ts |-> {},
      total_duration_ms |-> {} ]

RdrIdle ==
    [ status |-> "idle", pc |-> 0, stack |-> <<>>,
      ms |-> 0, elapsed |-> 0, remaining |-> 0, is_frozen |-> FALSE, is_running |-> FALSE,
      color |-> "STOPPED", total_duration_ms |-> 0, mode |-> "Duration",
      reads |-> NoReads, absolute_without_target |-> FALSE, stopped |-> FALSE ]

\* update_schedules before it is called: nothing on disk, no result.
JobIdle ==
    [ pc |-> "idle", i |-> 0, saved_files_count |-> 0, current_monday |-> None,
      files |-> {}, failed |-> None, result |-> None ]

\* Control flow of a handler h: next line, call, return, uncaught exception.
Goto(h, line) == [h EXCEPT !.pc = line]
CallFn(h, entry, back) == [h EXCEPT !.pc = entry, !.stack = <<back>> \o @]
Return(h) ==
    IF h.stack = <<>>
    THEN [h EXCEPT !.status = "returned", !.pc = 0]
    ELSE [h EXCEPT !.pc = Head(h.stack), !.stack = Tail(@)]
Raise(h) == [h EXCEPT !.status = "raised", !.pc = 0, !.stack = <<>>]

Call(op, arg, ret) ==
    [op |-> op, arg |-> arg, ret |-> ret, pre |-> timer_state,
     after_start |-> started_ok]

Init ==
    /\ timer_state = INITIAL_STATE
    /\ now = ClockStart
    /\ started_ok = FALSE
    /\ last = [op |-> "init", arg |-> None, ret |-> None,
               pre |-> INITIAL_STATE, after_start |-> FALSE]
    /\ hold = None
    /\ ncmd = 0
    /\ mut = MutIdle
    /\ rdr = RdrIdle
    /\ job = JobIdle

\* A command: a call that is made to change the state.
Command(op, arg, r) ==
    /\ ncmd < MaxCommands
    /\ ncmd' = ncmd + 1
    /\ timer_state' = r.st
    /\ last' = Call(op, arg, r.ret)
    /\ started_ok' = (op = "start_timer" /\ r.ret = TRUE)
    /\ hold' = IF op = "cancel_timer" /\ timer_state.start_time # None
               THEN LET live == LiveRemaining(timer_state, now) IN
                    Some([at |-> now,
                          ms |-> IF ~timer_state.allow_negative /\ live < 0
                                 THEN 0 ELSE live,
                          color |-> get_running_color(timer_state, live)])
               ELSE None
    /\ UNCHANGED <<now, mut, rdr, job>>

\* A read: a call made for its return value.
Read(op, arg, r) ==
    /\ timer_state' = r.st
    /\ last' = Call(op, arg, r.ret)
    /\ started_ok' = (op = "start_timer" /\ r.ret = TRUE)
    /\ UNCHANGED <<now, hold, ncmd, mut, rdr, job>>

\* The clock advances between calls.
Tick ==
    \E d \in TickSteps :
        /\ now + d <= ClockStart + HorizonHolds * HoldTicks + MaxSubTicks
        /\ (now + d - ClockStart) % TicksPerSec <= MaxSubTicks
        /\ now' = now + d
        /\ last' = Call("tick", None, None)
        /\ UNCHANGED <<timer_state, started_ok, hold, ncmd, mut, rdr, job>>

\* POST /api/start_timer
StartTimer ==
    Command("start_timer", None, start_timer(timer_state, now))

\* POST /api/set_duration
SetDuration ==
    \E seconds \in Seconds :
        Command("set_timer_duration_seconds", seconds,
                set_timer_duration_seconds(timer_state, now, seconds))

\* POST /api/set_target_time
SetTargetTime ==
    \E str \in TimeStrings :
        Command("set_absolute_target_time", str,
                set_absolute_target_time(timer_state, now, str))

\* POST /api/cancel
CancelTimer ==
    Command("cancel_timer", None, [st |-> cancel_timer(timer_state, now), ret |-> None])

\* POST /api/adjust_time
AdjustTime ==
    \E seconds \in Deltas :
        Command("adjust_timer", seconds, adjust_timer(timer_state, seconds))

\* POST /api/toggle_negative
ToggleNegative ==
    \E allow \in BOOLEAN :
        Command("toggle_negative", allow,
                [st |-> toggle_negative(timer_state, allow), ret |-> None])

\* computeRemainingMs, called on its own.
CalculateRemaining ==
    Read("calculate_remaining_ms", None, calculate_remaining_ms(timer_state, now))

\* computeStatusColor, called on its own with a remaining value.
GetStatusColor ==
    \E remaining_ms \in RemainingInputs :
        Read("get_status_color", remaining_ms,
             [st |-> timer_state,
              ret |-> get_status_color(timer_state, now, remaining_ms)])

\* GET /api/state
GetState ==
    Read("get_timer_state_details", None, get_timer_state_details(timer_state, now))

\* GET /api/state while the clock advances between the handler's statements.
GetStateSpanning ==
    \E d1, d2 \in TickSteps \cup {0} :
        /\ d1 + d2 > 0
        /\ now + d1 + d2 <= ClockStart + HorizonHolds * HoldTicks + MaxSubTicks
        /\ (now + d1 - ClockStart) % TicksPerSec <= MaxSubTicks
        /\ (now + d1 + d2 - ClockStart) % TicksPerSec <= MaxSubTicks
        /\ LET r == get_timer_state_details_spanning(
                        timer_state, now, now + d1, now + d1 + d2)
           IN  /\ timer_state' = r.st
               /\ last' = Call("get_timer_state_details_spanning",
                               <<d1, d2>>, r.ret)
        /\ now' = now + d1 + d2
        /\ started_ok' = FALSE
        /\ UNCHANGED <<hold, ncmd, mut, rdr, job>>

Next ==
    \/ Tick
    \/ StartTimer
    \/ SetDuration
    \/ SetTargetTime
    \/ CancelTimer
    \/ AdjustTime
    \/ ToggleNegative
    \/ CalculateRemaining
    \/ GetStatusColor
    \/ GetState
    \/ GetStateSpanning

Spec == Init /\ [][Next]_vars

\* ============================================ handlers running together
\* server.py starts the application with app.run() and takes no lock, so two
\* requests can be inside core.py at once.  One state-changing handler (mut) and
\* one polling get_timer_state_details (rdr) run one source line at a time; a
\* position is the number of the line of core.py about to run.  The episode is
\* short: every clock read in it returns the same value.

\* clear_frozen_display, lines 56-58, run by handler h on the shared state s.
ClearLine(h, s) ==
    CASE h.pc = 56 -> [h |-> Goto(h, 57), s |-> [s EXCEPT !.frozen_end_time_ts = None]]
      [] h.pc = 57 -> [h |-> Goto(h, 58), s |-> [s EXCEPT !.frozen_remaining_ms = 0]]
      [] h.pc = 58 -> [h |-> Return(h), s |-> [s EXCEPT !.frozen_color = "STOPPED"]]

\* One line of set_timer_duration_seconds (167-175), set_absolute_target_time
\* (180-192), cancel_timer (197-228) or adjust_timer (232-243).
MutLine(m, s, t) ==
    CASE m.pc = 167 -> [h |-> CallFn(m, 56, 168), s |-> s]
      [] m.pc = 168 -> [h |-> Goto(m, IF m.arg <= 0 THEN 169 ELSE 171), s |-> s]
      [] m.pc = 169 -> [h |-> CallFn(m, 197, 170), s |-> s]
      [] m.pc = 170 -> [h |-> Return([m EXCEPT !.ret = Some(TRUE)]), s |-> s]
      [] m.pc = 171 -> [h |-> Goto(m, 172),
                        s |-> [s EXCEPT !.total_duration_ms = m.arg * 1000]]
      [] m.pc = 172 -> [h |-> Goto(m, 173), s |-> [s EXCEPT !.start_time = Some(t)]]
      [] m.pc = 173 -> [h |-> Goto(m, 174),
                        s |-> [s EXCEPT !.target_end_time_ts = None]]
      [] m.pc = 174 -> [h |-> Goto(m, 175), s |-> [s EXCEPT !.mode = "Duration"]]
      [] m.pc = 175 -> [h |-> Return([m EXCEPT !.ret = Some(TRUE)]), s |-> s]
      \* set_absolute_target_time; lines 181-184 touch only locals
      [] m.pc = 180 -> [h |-> CallFn(m, 56, 182), s |-> s]
      [] m.pc = 182 ->
            LET hm == ParseTime(m.arg)
                today == t - (t % DayTicks)
                at == today + (Val(hm).h * 3600 + Val(hm).m * 60) * TicksPerSec
            IN  IF hm = None THEN [h |-> Goto(m, 192), s |-> s]
                ELSE [h |-> Goto([m EXCEPT !.target =
                                     IF at <= t THEN at + DayTicks ELSE at], 186),
                      s |-> s]
      [] m.pc = 186 -> [h |-> Goto(m, 187),
                        s |-> [s EXCEPT !.target_end_time_ts = Some(m.target)]]
      [] m.pc = 187 -> [h |-> Goto(m, 188), s |-> [s EXCEPT !.start_time = Some(t)]]
      [] m.pc = 188 -> [h |-> Goto(m, 189),
                        s |-> [s EXCEPT !.total_duration_ms = IntMs(m.target - t)]]
      [] m.pc = 189 -> [h |-> Goto(m, 190), s |-> [s EXCEPT !.mode = "Absolute"]]
      [] m.pc = 190 -> [h |-> Return([m EXCEPT !.ret = Some(TRUE)]), s |-> s]
      [] m.pc = 192 -> [h |-> Return([m EXCEPT !.ret = Some(FALSE)]), s |-> s]
      \* cancel_timer
      [] m.pc = 197 -> [h |-> Goto([m EXCEPT !.was_running = s.start_time # None,
                                            !.final_ms = 0,
                                            !.final_color = "STOPPED"], 203),
                        s |-> s]
      [] m.pc = 203 -> [h |-> Goto(m, IF m.was_running THEN 205 ELSE 214), s |-> s]
      [] m.pc = 205 -> [h |-> Goto(m, IF s.mode = "Duration" THEN 206 ELSE 208),
                        s |-> s]
      [] m.pc = 206 ->
            IF s.start_time = None THEN [h |-> Raise(m), s |-> s]
            ELSE [h |-> Goto([m EXCEPT !.elapsed = IntMs(t - Val(s.start_time))], 207),
                  s |-> s]
      [] m.pc = 207 -> [h |-> Goto([m EXCEPT !.final_ms =
                                       s.total_duration_ms - m.elapsed], 211),
                        s |-> s]
      [] m.pc = 208 ->
            [h |-> Goto(m, IF s.mode = "Absolute" /\ Truthy(s.target_end_time_ts)
                           THEN 209 ELSE 211),
             s |-> s]
      [] m.pc = 209 ->
            IF s.target_end_time_ts = None THEN [h |-> Raise(m), s |-> s]
            ELSE [h |-> Goto([m EXCEPT !.final_ms =
                                 IntMs(Val(s.target_end_time_ts) - t)], 211),
                  s |-> s]
      [] m.pc = 211 -> [h |-> Goto([m EXCEPT !.final_color =
                                       get_running_color(s, m.final_ms)], 214),
                        s |-> s]
      [] m.pc = 214 -> [h |-> Goto(m, 215), s |-> [s EXCEPT !.total_duration_ms = 0]]
      [] m.pc = 215 -> [h |-> Goto(m, 216), s |-> [s EXCEPT !.start_time = None]]
      [] m.pc = 216 -> [h |-> Goto(m, 217),
                        s |-> [s EXCEPT !.target_end_time_ts = None]]
      [] m.pc = 217 -> [h |-> Goto(m, 218), s |-> [s EXCEPT !.mode = "Duration"]]
      [] m.pc = 218 -> [h |-> CallFn(m, 56, 221), s |-> s]
      [] m.pc = 221 -> [h |-> IF m.was_running THEN Goto(m, 223) ELSE Return(m),
                        s |-> s]
      [] m.pc = 223 -> [h |-> Goto([m EXCEPT !.final_ms =
                                       IF ~s.allow_negative /\ m.final_ms < 0
                                       THEN 0 ELSE m.final_ms], 226),
                        s |-> s]
      [] m.pc = 226 -> [h |-> Goto(m, 227),
                        s |-> [s EXCEPT !.frozen_remaining_ms = m.final_ms]]
      [] m.pc = 227 -> [h |-> Goto(m, 228),
                        s |-> [s EXCEPT !.frozen_color = m.final_color]]
      [] m.pc = 228 -> [h |-> Return(m),
                        s |-> [s EXCEPT !.frozen_end_time_ts =
                                  Some(t + FROZEN_DURATION_SECONDS * TicksPerSec)]]
      \* adjust_timer
      [] m.pc = 232 -> [h |-> CallFn(m, 56, 233), s |-> s]
      [] m.pc = 233 -> [h |-> Goto(m, IF ~Truthy(s.start_time) THEN 235 ELSE 238),
                        s |-> s]
      [] m.pc = 235 -> [h |-> Goto(m, 236),
                        s |-> [s EXCEPT !.total_duration_ms =
                                  Max(0, s.total_duration_ms + m.arg * 1000)]]
      [] m.pc = 236 -> [h |-> Return([m EXCEPT !.ret = Some(TRUE)]), s |-> s]
      [] m.pc = 238 -> [h |-> Goto(m, IF s.mode = "Duration" THEN 239 ELSE 240),
                        s |-> s]
      [] m.pc = 239 ->
            IF s.start_time = None THEN [h |-> Raise(m), s |-> s]
            ELSE [h |-> Goto(m, 243),
                  s |-> [s EXCEPT !.start_time =
                            Some(Val(s.start_time) + m.arg * TicksPerSec)]]
      [] m.pc = 240 ->
            [h |-> Goto(m, IF s.mode = "Absolute" /\ Truthy(s.target_end_time_ts)
                           THEN 241 ELSE 243),
             s |-> s]
      [] m.pc = 241 ->
            IF s.target_end_time_ts = None THEN [h |-> Raise(m), s |-> s]
            ELSE [h |-> Goto(m, 242),
                  s |-> [s EXCEPT !.target_end_time_ts =
                            Some(Val(s.target_end_time_ts) + m.arg * TicksPerSec)]]
      [] m.pc = 242 ->
            IF s.target_end_time_ts = None \/ s.start_time = None
            THEN [h |-> Raise(m), s |-> s]
            ELSE [h |-> Goto(m, 243),
                  s |-> [s EXCEPT !.total_duration_ms =
                            IntMs(Val(s.target_end_time_ts) - Val(s.start_time))]]
      [] m.pc = 243 -> [h |-> Return([m EXCEPT !.ret = Some(TRUE)]), s |-> s]

\* The reader notes every value of the four timer fields it reads.
SawStart(r, s) == [r EXCEPT !.reads.start_time = @ \cup {s.start_time}]
SawTotal(r, s) == [r EXCEPT !.reads.total_duration_ms = @ \cup {s.total_duration_ms}]
SawMode(r, s) == [r EXCEPT !.reads.mode = @ \cup {s.mode}]
SawTarget(r, s) ==
    [r EXCEPT !.reads.target_end_time_ts = @ \cup {s.target_end_time_ts}]

\* The fields read while the colour is computed on line 128: get_status_color
\* (109-115) and, for a running timer, get_running_color (62-73).
SawForColor(r, s, t) ==
    IF ~(r.is_running \/ r.is_frozen) \/ IsFrozenAt(s, t) THEN r
    ELSE IF s.start_time = None \/ r.ms < 0 THEN SawStart(r, s)
    ELSE LET r1 == SawMode(SawTotal(SawStart(r, s), s), s) IN
         IF s.mode = "Absolute" THEN SawTarget(r1, s) ELSE r1

\* One line of get_timer_state_details (120-139), of the
\* calculate_remaining_ms it calls (79-104).
RdrLine(r, s, t) ==
    CASE r.pc = 120 ->
            [h |-> Goto(r, IF Truthy(s.frozen_end_time_ts)
                              /\ t >= Val(s.frozen_end_time_ts)
                           THEN 121 ELSE 123),
             s |-> s]
      [] r.pc = 121 -> [h |-> CallFn(r, 56, 123), s |-> s]
      [] r.pc = 123 -> [h |-> CallFn(r, 79, 124), s |-> s]
      \* calculate_remaining_ms
      [] r.pc = 79 -> [h |-> Goto(r, IF IsFrozenAt(s, t) THEN 80 ELSE 83), s |-> s]
      [] r.pc = 80 -> [h |-> Return([r EXCEPT !.ms = s.frozen_remaining_ms]), s |-> s]
      [] r.pc = 83 ->
            [h |-> Goto([SawStart(r, s) EXCEPT !.remaining = 0],
                        IF s.start_time = None THEN 84 ELSE 90),
             s |-> s]
      [] r.pc = 84 ->
            [h |-> Return([SawTotal(r, s) EXCEPT !.ms = s.total_duration_ms]),
             s |-> s]
      [] r.pc = 90 ->
            [h |-> Goto(SawMode(r, s), IF s.mode = "Duration" THEN 91 ELSE 93),
             s |-> s]
      [] r.pc = 91 ->
            IF s.start_time = None THEN [h |-> Raise(SawStart(r, s)), s |-> s]
            ELSE [h |-> Goto([SawStart(r, s) EXCEPT
                                 !.elapsed = IntMs(t - Val(s.start_time))], 92),
                  s |-> s]
      [] r.pc = 92 ->
            [h |-> Goto([SawTotal(r, s) EXCEPT
                            !.remaining = s.total_duration_ms - r.elapsed], 97),
             s |-> s]
      [] r.pc = 93 ->
            IF s.mode = "Absolute"
            THEN [h |-> Goto([SawTarget(SawMode(r, s), s) EXCEPT
                                 !.absolute_without_target =
                                     s.target_end_time_ts = None],
                             IF Truthy(s.target_end_time_ts) THEN 94 ELSE 97),
                  s |-> s]
            ELSE [h |-> Goto(SawMode(r, s), 97), s |-> s]
      [] r.pc = 94 ->
            IF s.target_end_time_ts = None
            THEN [h |-> Raise(SawTarget(r, s)), s |-> s]
            ELSE [h |-> Goto([SawTarget(r, s) EXCEPT
                                 !.remaining = IntMs(Val(s.target_end_time_ts) - t)],
                             97),
                  s |-> s]
      [] r.pc = 97 ->
            [h |-> Goto(r, IF ~s.allow_negative /\ r.remaining < 0 THEN 98 ELSE 104),
             s |-> s]
      [] r.pc = 98 -> [h |-> Goto(r, 99), s |-> [s EXCEPT !.frozen_remaining_ms = 0]]
      [] r.pc = 99 -> [h |-> Goto(r, 100), s |-> [s EXCEPT !.frozen_color = "RED"]]
      [] r.pc = 100 ->
            [h |-> Goto(r, 101),
             s |-> [s EXCEPT !.frozen_end_time_ts =
                       Some(t + FROZEN_DURATION_SECONDS * TicksPerSec)]]
      [] r.pc = 101 -> [h |-> Goto([r EXCEPT !.stopped = TRUE], 102),
                        s |-> [s EXCEPT !.start_time = None]]
      [] r.pc = 102 -> [h |-> Return([r EXCEPT !.ms = 0]), s |-> s]
      [] r.pc = 104 -> [h |-> Return([r EXCEPT !.ms = r.remaining]), s |-> s]
      \* back in get_timer_state_details
      [] r.pc = 124 ->
            [h |-> Goto([r EXCEPT !.is_frozen = s.frozen_end_time_ts # None], 125),
             s |-> s]
      [] r.pc = 125 ->
            [h |-> Goto([SawStart(r, s) EXCEPT
                            !.is_running = s.start_time # None], 128),
             s |-> s]
      [] r.pc = 128 ->
            [h |-> Goto([SawForColor(r, s, t) EXCEPT
                            !.color = IF r.is_running \/ r.is_frozen
                                      THEN get_status_color(s, t, r.ms)
                                      ELSE "STOPPED"], 130),
             s |-> s]
      [] r.pc = 130 ->
            [h |-> Return([SawMode(SawTotal(r, s), s) EXCEPT
                              !.total_duration_ms = s.total_duration_ms,
                              !.mode = s.mode]),
             s |-> s]

\* The states in which the handlers meet: nothing loaded, a 10 s Duration
\* timer, an Absolute timer for 14:30 (10 s away), each with either setting of
\* allow_negative, and a display frozen by a cancel, all set up at ClockStart.
ConcStartStates ==
    LET loaded == set_timer_duration_seconds(INITIAL_STATE, ClockStart, 10).st
        absolute == set_absolute_target_time(
                        INITIAL_STATE, ClockStart,
                        Some(<<"1", "4", ":", "3", "0">>)).st
    IN  { INITIAL_STATE, cancel_timer(loaded, ClockStart) }
        \cup { toggle_negative(x, allow) :
                   x \in {loaded, absolute}, allow \in BOOLEAN }

\* They meet just after the set-up, or one millisecond after the timer has run
\* out and the freeze has expired.
ConcInstants == {ClockStart + 1, ClockStart + HoldTicks + TicksPerMs}

InitConc ==
    /\ timer_state \in ConcStartStates
    /\ now \in ConcInstants
    /\ started_ok = FALSE
    /\ last = [op |-> "init", arg |-> None, ret |-> None,
               pre |-> INITIAL_STATE, after_start |-> FALSE]
    /\ hold = None
    /\ ncmd = 0
    /\ mut = MutIdle
    /\ rdr = RdrIdle
    /\ job = JobIdle

\* A request for a state-changing handler arrives: the handler is entered.
Enter(op, arg, entry) ==
    /\ mut.status = "idle"
    /\ mut' = [MutIdle EXCEPT !.status = "running", !.pc = entry, !.op = op,
                              !.arg = arg, !.pre = timer_state]
    /\ UNCHANGED <<timer_state, now, last, started_ok, hold, ncmd, rdr, job>>

EnterSetDuration ==
    \E seconds \in Seconds : Enter("set_timer_duration_seconds", seconds, 167)

EnterSetTargetTime ==
    \E str \in TimeStrings : Enter("set_absolute_target_time", str, 180)

EnterCancel == Enter("cancel_timer", None, 197)

EnterAdjust ==
    \E seconds \in Deltas : Enter("adjust_timer", seconds, 232)

\* The state-changing handler runs its next line.
MutatorStep ==
    /\ mut.status = "running"
    /\ LET r == IF mut.pc \in {56, 57, 58} THEN ClearLine(mut, timer_state)
                ELSE MutLine(mut, timer_state, now)
       IN  /\ mut' = r.h
           /\ timer_state' = r.s
    /\ UNCHANGED <<now, last, started_ok, hold, ncmd, rdr, job>>

\* A poll arrives: get_timer_state_details is entered.
EnterGetState ==
    /\ rdr.status # "running"
    /\ rdr' = [RdrIdle EXCEPT !.status = "running", !.pc = 120,
                              !.stopped = rdr.stopped]
    /\ UNCHANGED <<timer_state, now, last, started_ok, hold, ncmd, mut, job>>

\* The poll runs its next line.
ReaderStep ==
    /\ rdr.status = "running"
    /\ LET r == IF rdr.pc \in {56, 57, 58} THEN ClearLine(rdr, timer_state)
                ELSE RdrLine(rdr, timer_state, now)
       IN  /\ rdr' = r.h
           /\ timer_state' = r.s
    /\ UNCHANGED <<now, last, started_ok, hold, ncmd, mut, job>>

NextConc ==
    \/ EnterSetDuration
    \/ EnterSetTargetTime
    \/ EnterCancel
    \/ EnterAdjust
    \/ MutatorStep
    \/ EnterGetState
    \/ ReaderStep

SpecConc == InitConc /\ [][NextConc]_vars

\* ====================================================== schedule update
\* update_schedules (core.py 144-154) runs schedule.get_schedules_for_weeks(4)
\* (schedule.py 234-318).  The web site and the disk are the environment: each
\* step draws its outcome.  A Monday is counted in weeks from the first one.
NumWeeks == 4

\* POST /api/update_schedules: the job starts (again), with the files of
\* earlier runs still on disk.
UpdateSchedules ==
    /\ job.pc \in {"idle", "returned"}
    /\ job' = [JobIdle EXCEPT !.pc = "makedirs", !.files = job.files]
    /\ UNCHANGED <<timer_state, now, last, started_ok, hold, ncmd, mut, rdr>>

\* The job moves on; the timer is not involved.
JobStep(j) ==
    /\ job' = j
    /\ UNCHANGED <<timer_state, now, last, started_ok, hold, ncmd, mut, rdr>>

\* break (or return 0): the loop is left because of a failure at this step.
Break(step) ==
    [job EXCEPT !.pc = "return",
                !.failed = Some([week |-> job.i, step |-> step])]

\* An exception leaves get_schedules_for_weeks and is caught by update_schedules
\* (core.py 151-154).
Uncaught(step) ==
    [job EXCEPT !.pc = "returned",
                !.failed = Some([week |-> job.i, step |-> step]),
                !.result = Some([success |-> FALSE, saved_count |-> 0])]

\* schedule.py 246-252: the schedules directory is created when missing.
MakeDirs ==
    /\ job.pc = "makedirs"
    /\ \E outcome \in {"ok", "OSError"} :
          JobStep(IF outcome = "ok" THEN [job EXCEPT !.pc = "overview"]
                  ELSE Break("makedirs"))

\* schedule.py 259-263: fetch_current_page_content returns the page, or a string
\* starting with "Error" when the request fails.
FetchOverview ==
    /\ job.pc = "overview"
    /\ \E outcome \in {"page", "Error"} :
          JobStep(IF outcome = "page" THEN [job EXCEPT !.pc = "link"]
                  ELSE Break("overview"))

\* schedule.py 265-271: _extract_life_and_ministry_link returns the details
\* URL or an "Error" string, or raises (the parser is not available).
ExtractLink ==
    /\ job.pc = "link"
    /\ \E outcome \in {"url", "Error", "raises"} :
          JobStep(CASE outcome = "url" -> [job EXCEPT !.pc = "details"]
                    [] outcome = "Error" -> Break("link")
                    [] outcome = "raises" -> Uncaught("link"))

\* schedule.py 275, 301-307: fetch_page_details returns the page or raises
\* (HTTPError, or any other request failure); both are caught and break.
FetchDetails ==
    /\ job.pc = "details"
    /\ \E outcome \in {"page", "HTTPError", "Exception"} :
          JobStep(IF outcome = "page" THEN [job EXCEPT !.pc = "parts"]
                  ELSE Break("details"))

\* schedule.py 276-279: extract_meeting_parts returns the parts, or [] when the
\* article is not found (nothing is saved and the loop goes on), or raises.
ExtractParts ==
    /\ job.pc = "parts"
    /\ \E outcome \in {"parts", "empty", "raises"} :
          JobStep(CASE outcome = "parts" -> [job EXCEPT !.pc = "save"]
                    [] outcome = "empty" -> [job EXCEPT !.pc = "next"]
                    [] outcome = "raises" -> Break("parts"))

\* schedule.py 280-298: the Monday of the week is parsed from the title (first
\* week) or advanced by 7 days; with a Monday the file is written.
SaveWeek ==
    /\ job.pc = "save"
    /\ \E parsed \in {None, Some(0)}, written \in BOOLEAN :
          LET monday == IF job.i = 0 THEN parsed
                        ELSE IF job.current_monday # None
                        THEN Some(Val(job.current_monday) + 1)
                        ELSE None
          IN  JobStep(
                IF monday = None
                THEN [job EXCEPT !.current_monday = monday, !.pc = "next"]
                ELSE IF written
                THEN [job EXCEPT !.current_monday = monday,
                                 !.files = @ \cup {Val(monday)},
                                 !.saved_files_count = @ + 1,
                                 !.pc = "next"]
                ELSE [Break("save") EXCEPT !.current_monday = monday])

\* schedule.py 310-316 and the loop header 254: the 'next week' link.
NextWeekLink ==
    /\ job.pc = "next"
    /\ \E outcome \in {"url", "none"} :
          JobStep(IF outcome = "none" THEN [job EXCEPT !.pc = "return"]
                  ELSE [job EXCEPT !.i = @ + 1,
                                   !.pc = IF job.i + 1 < NumWeeks
                                          THEN "overview" ELSE "return"])

\* schedule.py 318 (and 252) and core.py 148-150: the count is returned and
\* reported as a success.
ReturnCount ==
    /\ job.pc = "return"
    /\ JobStep([job EXCEPT !.pc = "returned",
                           !.result = Some([success |-> TRUE,
                                            saved_count |-> job.saved_files_count])])

InitRefresh == Init

NextRefresh ==
    \/ UpdateSchedules
    \/ MakeDirs
    \/ FetchOverview
    \/ ExtractLink
    \/ FetchDetails
    \/ ExtractParts
    \/ SaveWeek
    \/ NextWeekLink
    \/ ReturnCount

SpecRefresh == InitRefresh /\ [][NextRefresh]_vars

\* ============================================================ polling
\* The display page polls GET /api/state and no command arrives: the timer is
\* in one of the states ConcStartStates, set up at ClockStart, and from then on
\* there are only polls and the passing of time.  The client polls at least
\* once between two advances of the clock, and the clock runs one freeze hold
\* further than in Spec.
InitPoll ==
    /\ timer_state \in ConcStartStates
    /\ now = ClockStart
    /\ started_ok = FALSE
    /\ last = [op |-> "init", arg |-> None, ret |-> None,
               pre |-> INITIAL_STATE, after_start |-> FALSE]
    /\ hold = None
    /\ ncmd = 0
    /\ mut = MutIdle
    /\ rdr = RdrIdle
    /\ job = JobIdle

PollTick ==
    /\ last.op = "get_timer_state_details"
    /\ \E d \in TickSteps :
          /\ now + d <= ClockStart + (HorizonHolds + 1) * HoldTicks + MaxSubTicks
          /\ (now + d - ClockStart) % TicksPerSec <= MaxSubTicks
          /\ now' = now + d
          /\ last' = Call("tick", None, None)
          /\ UNCHANGED <<timer_state, started_ok, hold, ncmd, mut, rdr, job>>

NextPoll ==
    \/ PollTick
    \/ GetState

\* Time keeps advancing and the client keeps polling.
SpecPoll ==
    InitPoll /\ [][NextPoll]_vars /\ WF_vars(PollTick) /\ WF_vars(GetState)

\* ============================================================== claims
Pre == last.pre
Running(s) == s.start_time # None
Frozen(s) == s.frozen_end_time_ts # None
Loaded(s) == s.total_duration_ms > 0 \/ s.target_end_time_ts # None
JustCalled(op) == last.op = op

\* C1: for every seconds > 0 and from every state, right after
\* set_timer_duration_seconds(seconds) the timer is running with start_time = now,
\* is not frozen, is in Duration mode with no target, holds
\* total_duration_ms = seconds * 1000, and a remaining-time read at the same
\* instant returns seconds * 1000.
C1_SetDurationStarts ==
    (JustCalled("set_timer_duration_seconds") /\ last.arg > 0) =>
        /\ last.ret = TRUE
        /\ timer_state.start_time = Some(now)
        /\ ~Frozen(timer_state)
        /\ timer_state.mode = "Duration"
        /\ timer_state.target_end_time_ts = None
        /\ timer_state.total_duration_ms = last.arg * 1000
        /\ calculate_remaining_ms(timer_state, now).ret = last.arg * 1000
        /\ get_timer_state_details(timer_state, now).ret.is_running
        /\ ~get_timer_state_details(timer_state, now).ret.is_frozen

\* C1 happens: a positive duration is set on a timer that was frozen.
C1_Witness ==
    /\ JustCalled("set_timer_duration_seconds")
    /\ last.arg > 0
    /\ Frozen(Pre)
    /\ now < Val(Pre.frozen_end_time_ts)

\* C2: with allow_negative false, a running Duration timer whose elapsed
\* milliseconds (as the code computes them) exceed total_duration_ms is, after the
\* next calculate_remaining_ms(), stopped and frozen: frozen_color RED,
\* frozen_remaining_ms 0, frozen_end_time_ts = now + 10 s; the call returns 0.
C2_Precondition ==
    /\ JustCalled("calculate_remaining_ms")
    /\ ~Pre.allow_negative
    /\ Running(Pre)
    /\ Pre.mode = "Duration"
    /\ IntMs(now - Val(Pre.start_time)) > Pre.total_duration_ms

C3_WitnessHeld ==
    /\ JustCalled("get_timer_state_details")
    /\ hold # None
    /\ Val(hold).at < now
    /\ now < Val(hold).at + 10 * TicksPerSec
    /\ last.ret.is_frozen

\* A stopped timer with nothing loaded.
Unloaded(s) ==
    /\ s.total_duration_ms = 0
    /\ s.target_end_time_ts = None
    /\ s.start_time = None

C4_Precondition ==
    /\ JustCalled("adjust_timer")
    /\ last.arg = 30
    /\ Unloaded(Pre)

C5_Precondition ==
    /\ JustCalled("get_status_color")
    /\ Running(Pre)

\* C5 as stated: for a running timer with total_duration_ms = 100000 the colour
\* is AMBER at 20000, GREEN at 20001 and RED at -1; for a running timer AMBER
\* holds exactly when 0 <= remaining <= 20% of the effective total.
C5_PercentageThreshold ==
    C5_Precondition =>
        /\ Pre.total_duration_ms = 100000 =>
              /\ last.arg = 20000 => last.ret = "AMBER"
              /\ last.arg = 20001 => last.ret = "GREEN"
              /\ last.arg = -1 => last.ret = "RED"
        /\ (Pre.mode = "Duration" /\ Pre.total_duration_ms > 0) =>
              (last.ret = "AMBER" <=>
                  (0 <= last.arg /\ 5 * last.arg <= Pre.total_duration_ms))

\* C5 as amended: the threshold is the fixed 60000 ms.  For a running timer with
\* total_duration_ms = 100000 the colour is AMBER at 20000, at 20001 and at
\* 60000, GREEN at 60001 and RED at -1; for a running timer with a positive
\* effective total AMBER holds exactly when 0 <= remaining <= 60000, and RED
\* exactly when remaining < 0.
C5_FixedThreshold ==
    C5_Precondition =>
        /\ Pre.total_duration_ms = 100000 =>
              /\ last.arg = 20000 => last.ret = "AMBER"
              /\ last.arg = 20001 => last.ret = "AMBER"
              /\ last.arg = 60000 => last.ret = "AMBER"
              /\ last.arg = 60001 => last.ret = "GREEN"
              /\ last.arg = -1 => last.ret = "RED"
        /\ (Pre.mode = "Duration" /\ Pre.total_duration_ms > 0) =>
              (last.ret = "AMBER" <=> (0 <= last.arg /\ last.arg <= 60000))
        /\ last.ret = "RED" <=> last.arg < 0
        /\ last.ret \in {"RED", "AMBER", "GREEN"}

\* C5 happens: the colour of 60000 ms is asked of a running 100 s timer.
C5_Witness ==
    /\ C5_Precondition
    /\ Pre.total_duration_ms = 100000
    /\ last.arg = 60000

\* C6: set_absolute_target_time with an unparsable or out-of-range string
\* returns failure and changes no field of timer_state; called while frozen it
\* leaves the freeze fields as they were.
C6_InvalidTimeNoChange ==
    (JustCalled("set_absolute_target_time") /\ ParseTime(last.arg) = None) =>
        /\ last.ret = FALSE
        /\ timer_state = Pre

\* C7 as stated: cancel_timer() on a timer that is not running leaves the whole
\* timer_state unchanged.
C7_CancelNoOp ==
    (JustCalled("cancel_timer") /\ ~Running(Pre)) => timer_state = Pre

\* C7 as amended: cancel_timer() on a timer that is not running resets it to the
\* unloaded stopped state (total_duration_ms 0, no start, no target, Duration
\* mode, freeze cleared; allow_negative kept).  It changes nothing only when the
\* timer was already in that state, and a cancel_timer() repeated on its result
\* changes nothing.
C7_CancelResets ==
    (JustCalled("cancel_timer") /\ ~Running(Pre)) =>
        /\ timer_state = [INITIAL_STATE EXCEPT !.allow_negative = Pre.allow_negative]
        /\ (timer_state = Pre) <=>
              (Unloaded(Pre) /\ ~Frozen(Pre) /\ Pre.mode = "Duration"
               /\ Pre.frozen_remaining_ms = 0 /\ Pre.frozen_color = "STOPPED")
        /\ cancel_timer(timer_state, now) = timer_state

\* C7 happens: the cancel finds a loaded, stopped timer whose display is still
\* frozen (left by an auto-freeze).
C7_Witness ==
    /\ JustCalled("cancel_timer")
    /\ ~Running(Pre)
    /\ Pre.total_duration_ms > 0
    /\ Frozen(Pre)

\* C8: for every seconds <= 0 and from every state,
\* set_timer_duration_seconds(seconds) leaves exactly the timer_state that
\* cancel_timer() leaves when called in the same state at the same instant.
C8_NonPositiveIsCancel ==
    (JustCalled("set_timer_duration_seconds") /\ last.arg <= 0) =>
        /\ last.ret = TRUE
        /\ timer_state = cancel_timer(Pre, now)

\* C8 happens: a zero duration is set on a running timer after some time.
C8_Witness ==
    /\ JustCalled("set_timer_duration_seconds")
    /\ last.arg = 0
    /\ Running(Pre)
    /\ Val(Pre.start_time) < now
    /\ Frozen(timer_state)

\* A read of the remaining time, alone or within a snapshot.
ReadValue ==
    IF JustCalled("get_timer_state_details") THEN last.ret.remaining_ms ELSE last.ret

C9_Precondition ==
    /\ JustCalled("calculate_remaining_ms") \/ JustCalled("get_timer_state_details")
    /\ Pre.allow_negative
    /\ Running(Pre)
    /\ LiveRemaining(Pre, now) < 0

\* What C9 says of one read, apart from the order of successive reads.
C9_Passthrough ==
    /\ timer_state = Pre
    /\ ReadValue = LiveRemaining(Pre, now)
    /\ ReadValue < 0
    /\ JustCalled("get_timer_state_details") =>
          /\ last.ret.color = "RED"
          /\ last.ret.is_running
          /\ ~last.ret.is_frozen
    /\ get_status_color(timer_state, now, ReadValue) = "RED"

\* The instants after now at which the next read is considered.
LaterBy == (1..(2 * TicksPerMs)) \cup {10 * TicksPerSec}

\* C9 as stated: with allow_negative true a running timer whose remaining time
\* is below zero keeps running across reads; each read returns the live negative
\* value, strictly decreasing as time advances, the colour is RED, and no read
\* sets a freeze field or clears start_time.
C9_StrictlyDecreasing ==
    C9_Precondition =>
        /\ C9_Passthrough
        /\ \A d \in LaterBy :
              calculate_remaining_ms(timer_state, now + d).ret < ReadValue

\* C9 as amended: as stated, except that the values read never increase as time
\* advances and strictly decrease between reads at least one millisecond apart
\* (the live value is truncated to whole milliseconds).
C9_Decreasing ==
    C9_Precondition =>
        /\ C9_Passthrough
        /\ \A d \in LaterBy :
              LET later == calculate_remaining_ms(timer_state, now + d) IN
              /\ later.st = timer_state
              /\ later.ret <= ReadValue
              /\ d >= TicksPerMs => later.ret < ReadValue

\* C9 happens: an Absolute timer is read after its target has passed.
C9_Witness ==
    /\ C9_Precondition
    /\ Pre.mode = "Absolute"
    /\ JustCalled("get_timer_state_details")

NothingLoaded(s) ==
    /\ s.total_duration_ms = 0
    /\ s.target_end_time_ts = None

\* The calls that can load a value.
LoadingCalls ==
    {"set_timer_duration_seconds", "set_absolute_target_time", "adjust_timer"}

\* One step of C11.
C11_Step ==
    /\ (last'.op = "start_timer" /\ NothingLoaded(timer_state)) =>
          /\ last'.ret = FALSE
          /\ timer_state' = timer_state
    /\ last'.op = "cancel_timer" => NothingLoaded(timer_state')
    /\ (NothingLoaded(timer_state) /\ last'.op \notin LoadingCalls) =>
          NothingLoaded(timer_state')

\* C11: start_timer() with nothing loaded (total_duration_ms = 0 and no target)
\* returns False and changes no field of the state, an active freeze included;
\* cancel_timer() leaves nothing loaded, and nothing stays loaded until a
\* set_timer_duration_seconds, set_absolute_target_time or adjust_timer call, so
\* that every start_timer() in between fails.
C11_StartNothingLoaded == [][C11_Step]_vars

\* C11 happens: start_timer() has just been refused while the display was
\* frozen by a cancel, and the freeze is still there.
C11_Witness ==
    /\ JustCalled("start_timer")
    /\ NothingLoaded(Pre)
    /\ Frozen(Pre)
    /\ now < Val(Pre.frozen_end_time_ts)
    /\ last.ret = FALSE
    /\ Frozen(timer_state)

\* The string '14:30' and the tick of the day it names.
HalfPastTwo == Some(<<"1", "4", ":", "3", "0">>)
HalfPastTwoTicks == (14 * 3600 + 30 * 60) * (1000 * TicksPerMs)

C12_Precondition ==
    /\ JustCalled("set_absolute_target_time")
    /\ last.arg = HalfPastTwo

C12_WitnessToday ==
    /\ C12_Precondition
    /\ Val(timer_state.target_end_time_ts) - now = 10 * 1000 * TicksPerMs - 1

C13_Precondition ==
    /\ JustCalled("adjust_timer")
    /\ Running(Pre)
    /\ Pre.mode = "Duration"

\* The remaining time read at this instant before and after the call.
C13_Before == calculate_remaining_ms(Pre, now)
C13_After == calculate_remaining_ms(timer_state, now)

C13_Frame ==
    /\ timer_state.total_duration_ms = Pre.total_duration_ms
    /\ timer_state.mode = Pre.mode
    /\ Running(timer_state)

\* C13 as stated: adjust_timer(seconds) on a running Duration timer changes the
\* value calculate_remaining_ms() returns at the same instant by exactly
\* seconds * 1000, and leaves total_duration_ms, mode and the running status
\* unchanged.
C13_ExactShift ==
    C13_Precondition =>
        /\ C13_After.ret = C13_Before.ret + last.arg * 1000
        /\ C13_Frame

\* C13 as amended: total_duration_ms, mode and the running status are unchanged
\* and start_time moves by seconds.  When neither read auto-freezes the timer,
\* the value read changes by seconds * 1000 to within one millisecond, and by
\* exactly seconds * 1000 when the elapsed time is a whole number of
\* milliseconds or does not change sign.  A read that auto-freezes (allow_negative
\* false and the live value below zero) returns 0.
C13_ShiftWithinOneMs ==
    C13_Precondition =>
        LET shift == last.arg * 1000
            elapsed == now - Val(Pre.start_time)
            moved == now - Val(timer_state.start_time)
            change == C13_After.ret - C13_Before.ret
        IN  /\ C13_Frame
            /\ moved = elapsed - shift * TicksPerMs
            /\ IF C13_Before.st = Pre /\ C13_After.st = timer_state
               THEN /\ change - shift \in {-1, 0, 1}
                    /\ ( \/ elapsed % TicksPerMs = 0
                         \/ (elapsed >= 0 /\ moved >= 0)
                         \/ (elapsed <= 0 /\ moved <= 0) ) => change = shift
               ELSE /\ ~Pre.allow_negative
                    /\ C13_Before.st # Pre => C13_Before.ret = 0
                    /\ C13_After.st # timer_state => C13_After.ret = 0

\* C13 happens: half a millisecond after the start the timer is given 30 s
\* more, and the value read grows by 29999.
C13_Witness ==
    /\ C13_Precondition
    /\ last.arg = 30
    /\ now - Val(Pre.start_time) = 1
    /\ C13_After.ret - C13_Before.ret = 29999

\* C13 also happens with an exact change.
C13_WitnessExact ==
    /\ C13_Precondition
    /\ last.arg = -10
    /\ Pre.allow_negative
    /\ C13_After.ret - C13_Before.ret = -10000

\* The state the state-changing call would leave had it run alone, from the
\* state it found, at this instant.
C14_PostState ==
    CASE mut.op = "set_timer_duration_seconds" ->
            set_timer_duration_seconds(mut.pre, now, mut.arg).st
      [] mut.op = "set_absolute_target_time" ->
            set_absolute_target_time(mut.pre, now, mut.arg).st
      [] mut.op = "cancel_timer" -> cancel_timer(mut.pre, now)
      [] mut.op = "adjust_timer" -> adjust_timer(mut.pre, mut.arg).st

\* Every value the poll read of mode, start_time, target_end_time_ts and
\* total_duration_ms is the value that field has in state s.
C14_ReadsAgreeWith(s) ==
    /\ rdr.reads.mode \subseteq {s.mode}
    /\ rdr.reads.start_time \subseteq {s.start_time}
    /\ rdr.reads.target_end_time_ts \subseteq {s.target_end_time_ts}
    /\ rdr.reads.total_duration_ms \subseteq {s.total_duration_ms}

\* C14: with a get_timer_state_details() interleaved line by line with one
\* set_timer_duration_seconds, set_absolute_target_time, cancel_timer or
\* adjust_timer, the poll never finds a running timer in Absolute mode with no
\* target, and the values of mode, start_time, target_end_time_ts and
\* total_duration_ms it has read when it returns all belong to the state before
\* the call or all belong to the state after it (polls that stop the timer
\* themselves aside).
C14_NoPartialObservation ==
    /\ ~rdr.absolute_without_target
    /\ (rdr.status = "returned" /\ ~rdr.stopped) =>
          IF mut.status = "idle"
          THEN C14_ReadsAgreeWith(timer_state)
          ELSE C14_ReadsAgreeWith(mut.pre) \/ C14_ReadsAgreeWith(C14_PostState)

\* The scrape failed in the first week, before anything was saved: the overview
\* was not fetched, the details link was not found, or the details page was
\* not fetched or not parsed.
C15_FirstWeekFailed ==
    /\ job.pc = "returned"
    /\ job.failed # None
    /\ Val(job.failed).week = 0
    /\ Val(job.failed).step \in {"overview", "link", "details", "parts"}
    /\ job.saved_files_count = 0

\* C15: whenever the scrape of the first week fails, so that no week is saved,
\* update_schedules() returns success = False (and not success = True with a
\* count of 0).
C15_FailureReported ==
    C15_FirstWeekFailed => ~Val(job.result).success

\* C16: total_duration_ms >= 0 in every state reached by any sequence of calls,
\* adjust_timer with a negative value on a running Absolute timer included.
C16_TotalNeverNegative == timer_state.total_duration_ms >= 0

\* C17: in every state reached by calls made one at a time, start_time is
\* absent whenever frozen_end_time_ts is set, and no get_timer_state_details()
\* reports is_running and is_frozen together.
C17_RunningExcludesFrozen ==
    /\ Frozen(timer_state) => ~Running(timer_state)
    /\ JustCalled("get_timer_state_details") =>
          ~(last.ret.is_running /\ last.ret.is_frozen)

\* C17 happens: a timer frozen by running out is started again while the
\* frozen display is still held, and is then running and no longer frozen.
C17_Witness ==
    /\ JustCalled("start_timer")
    /\ Frozen(Pre)
    /\ now < Val(Pre.frozen_end_time_ts)
    /\ Pre.frozen_color = "RED"
    /\ Running(timer_state)
    /\ ~Frozen(timer_state)

\* C18: in every state reached by calls made one at a time, a running timer in
\* Absolute mode has target_end_time_ts set; in particular after a start_timer()
\* that follows an auto-freeze of an Absolute timer, and after every
\* adjust_timer().
C18_AbsoluteHasTarget ==
    (Running(timer_state) /\ timer_state.mode = "Absolute") =>
        timer_state.target_end_time_ts # None

\* C18 happens: an Absolute timer that was frozen by running out has just been
\* started again.
C18_Witness ==
    /\ JustCalled("start_timer")
    /\ Pre.mode = "Absolute"
    /\ ~Running(Pre)
    /\ Pre.frozen_color = "RED"
    /\ Running(timer_state)
    /\ timer_state.mode = "Absolute"
    /\ timer_state.target_end_time_ts # None

\* C18 also happens after an adjust_timer() on a running Absolute timer.
C18_WitnessAdjust ==
    /\ JustCalled("adjust_timer")
    /\ Running(Pre)
    /\ Pre.mode = "Absolute"
    /\ timer_state.target_end_time_ts # Pre.target_end_time_ts

\* The live remaining time of the running timer found by the call, at now.
C19_Live ==
    IF Pre.mode = "Duration"
    THEN Pre.total_duration_ms - IntMs(now - Val(Pre.start_time))
    ELSE IntMs(Val(Pre.target_end_time_ts) - now)

\* C19: cancel_timer() always leaves total_duration_ms = 0, no start_time, no
\* target and mode Duration.  If the timer was running it is then frozen until
\* now + 10 s, with the running colour of the live remaining value at the cancel
\* and with that value as frozen_remaining_ms, replaced by 0 when it is negative
\* and allow_negative is false; if it was not running no freeze is set.
C19_CancelResetsAndFreezes ==
    JustCalled("cancel_timer") =>
        /\ timer_state.total_duration_ms = 0
        /\ timer_state.start_time = None
        /\ timer_state.target_end_time_ts = None
        /\ timer_state.mode = "Duration"
        /\ timer_state.allow_negative = Pre.allow_negative
        /\ IF Running(Pre)
           THEN /\ timer_state.frozen_end_time_ts = Some(now + 10 * 1000 * TicksPerMs)
                /\ timer_state.frozen_color = get_running_color(Pre, C19_Live)
                /\ timer_state.frozen_remaining_ms =
                      IF C19_Live < 0 /\ ~Pre.allow_negative THEN 0 ELSE C19_Live
                /\ get_timer_state_details(timer_state, now).ret.is_frozen
           ELSE /\ timer_state.frozen_end_time_ts = None
                /\ ~get_timer_state_details(timer_state, now).ret.is_frozen

\* C19 happens: a timer that has run out, with negative time not allowed and
\* no read since, is cancelled: the display freezes on 0, in red.
C19_Witness ==
    /\ JustCalled("cancel_timer")
    /\ Running(Pre)
    /\ ~Pre.allow_negative
    /\ C19_Live < 0
    /\ timer_state.frozen_remaining_ms = 0
    /\ timer_state.frozen_color = "RED"

\* C19 also happens for a stopped timer whose display was frozen.
C19_WitnessStopped ==
    /\ JustCalled("cancel_timer")
    /\ ~Running(Pre)
    /\ Frozen(Pre)
    /\ ~Frozen(timer_state)

\* C20: after any state read, calculate_remaining_ms() or
\* get_timer_state_details(), frozen_end_time_ts is absent or strictly greater
\* than now: a read made when now >= frozen_end_time_ts clears the freeze fields
\* (frozen_end_time_ts absent, frozen_remaining_ms 0, frozen_color STOPPED).
C20_ReadClearsExpiredFreeze ==
    (JustCalled("calculate_remaining_ms") \/ JustCalled("get_timer_state_details")) =>
        /\ \/ timer_state.frozen_end_time_ts = None
           \/ Val(timer_state.frozen_end_time_ts) > now
        /\ (Frozen(Pre) /\ now >= Val(Pre.frozen_end_time_ts)) =>
              /\ timer_state.frozen_remaining_ms = 0
              /\ timer_state.frozen_color = "STOPPED"

C21_Precondition ==
    /\ JustCalled("adjust_timer")
    /\ Running(Pre)
    /\ Pre.mode = "Absolute"

\* The remaining time read at this instant before and after the call.
C21_Before == calculate_remaining_ms(Pre, now)
C21_After == calculate_remaining_ms(timer_state, now)

\* The target moves by exactly the given seconds; start_time, mode and
\* allow_negative stay.
C21_Frame ==
    /\ timer_state.target_end_time_ts # None
    /\ Val(timer_state.target_end_time_ts) =
          Val(Pre.target_end_time_ts) + last.arg * 1000 * TicksPerMs
    /\ timer_state.start_time = Pre.start_time
    /\ timer_state.mode = Pre.mode
    /\ timer_state.allow_negative = Pre.allow_negative

\* C21 as stated: adjust_timer(seconds) on a running Absolute timer moves
\* target_end_time_ts by exactly seconds, leaves start_time, mode and
\* allow_negative unchanged, sets total_duration_ms to (target - start) * 1000,
\* and changes the remaining time read at the same instant by exactly
\* seconds * 1000.
C21_ExactShift ==
    C21_Precondition =>
        /\ C21_Frame
        /\ timer_state.total_duration_ms * TicksPerMs =
              Val(timer_state.target_end_time_ts) - Val(timer_state.start_time)
        /\ C21_After.ret = C21_Before.ret + last.arg * 1000

\* C21 as amended: the target moves by exactly seconds and start_time, mode and
\* allow_negative are unchanged; total_duration_ms is (target - start) * 1000
\* truncated toward zero to whole milliseconds (it may be negative); when
\* neither read auto-freezes the timer the value read changes by seconds * 1000
\* to within one millisecond, and by exactly seconds * 1000 when the time to the
\* target is a whole number of milliseconds or does not change sign.  A read
\* that auto-freezes (allow_negative false and the live value below zero)
\* returns 0.
C21_ShiftWithinOneMs ==
    C21_Precondition =>
        LET shift == last.arg * 1000
            span == Val(timer_state.target_end_time_ts) - Val(timer_state.start_time)
            left == Val(Pre.target_end_time_ts) - now
            moved == Val(timer_state.target_end_time_ts) - now
            change == C21_After.ret - C21_Before.ret
        IN  /\ C21_Frame
            /\ timer_state.total_duration_ms * TicksPerMs \in
                  IF span >= 0 THEN (span - TicksPerMs + 1)..span
                  ELSE span..(span + TicksPerMs - 1)
            /\ IF C21_Before.st = Pre /\ C21_After.st = timer_state
               THEN /\ change - shift \in {-1, 0, 1}
                    /\ ( \/ left % TicksPerMs = 0
                         \/ (left >= 0 /\ moved >= 0)
                         \/ (left <= 0 /\ moved <= 0) ) => change = shift
               ELSE /\ ~Pre.allow_negative
                    /\ C21_Before.st # Pre => C21_Before.ret = 0
                    /\ C21_After.st # timer_state => C21_After.ret = 0

\* C21 happens: with 9999.5 ms to the target the timer is given 10 s less; the
\* value read goes from 9999 to 0, a change of -9999.
C21_Witness ==
    /\ C21_Precondition
    /\ last.arg = -10
    /\ Val(Pre.target_end_time_ts) - now = 10 * 1000 * TicksPerMs - 1
    /\ C21_Before.ret = 9999
    /\ C21_After.ret = 0

\* C21 also happens with an exact change.
C21_WitnessExact ==
    /\ C21_Precondition
    /\ last.arg = 30
    /\ C21_After.ret - C21_Before.ret = 30000

C22_Snapshot == JustCalled("get_timer_state_details")

C22_ReportedFrozen ==
    /\ C22_Snapshot
    /\ last.ret.is_frozen
    /\ last.ret.remaining_ms = 0
    /\ last.ret.color = "RED"

C22_ReportedStopped ==
    /\ C22_Snapshot
    /\ ~last.ret.is_running
    /\ ~last.ret.is_frozen
    /\ last.ret.color = "STOPPED"

\* The freeze the countdown itself made when it ran out.
C22_AutoFrozen(s) ==
    /\ Frozen(s)
    /\ s.frozen_remaining_ms = 0
    /\ s.frozen_color = "RED"

\* A snapshot of an auto-frozen timer reports it Frozen before the instant
\* frozen_end_time_ts, 10 s after the transition, and Stopped from that instant.
C22_HoldLastsTenSeconds ==
    (C22_Snapshot /\ C22_AutoFrozen(Pre)) =>
        /\ Val(Pre.frozen_end_time_ts) - now <= FROZEN_DURATION_SECONDS * TicksPerSec
        /\ now < Val(Pre.frozen_end_time_ts) => C22_ReportedFrozen
        /\ now >= Val(Pre.frozen_end_time_ts) => C22_ReportedStopped

\* C22: with allow_negative false, a client that keeps polling
\* get_timer_state_details() and time that keeps advancing, every running timer
\* that receives no further command is eventually reported Frozen (remaining 0,
\* RED); from 10 s after that transition it is reported Stopped (is_running
\* false, is_frozen false, colour STOPPED), and every later snapshot reports
\* Stopped; only reads are needed.
C22_PolledTimerFreezesThenStops ==
    /\ (Running(timer_state) /\ ~timer_state.allow_negative) ~> C22_ReportedFrozen
    /\ C22_ReportedFrozen ~> C22_ReportedStopped
    /\ [](C22_HoldLastsTenSeconds)
    /\ []((C22_ReportedStopped /\ C22_AutoFrozen(Pre))
              => [](C22_Snapshot => C22_ReportedStopped))

\* A poll made exactly when the hold of an auto-freeze ends reports Stopped.
C22_Witness ==
    /\ C22_Snapshot
    /\ C22_AutoFrozen(Pre)
    /\ now = Val(Pre.frozen_end_time_ts)
    /\ C22_ReportedStopped

\* C23: whenever allow_negative is false at the time of a
\* get_timer_state_details() call, the reported remaining_ms is >= 0, in every
\* reachable state (a freeze holding a negative final value included, and the
\* stopped states reached after adjust_timer on an Absolute timer).
C23_NonNegativeWhenDisallowed ==
    (JustCalled("get_timer_state_details") /\ ~Pre.allow_negative) =>
        last.ret.remaining_ms >= 0

\* C24: when cancel_timer() or adjust_timer() is interleaved statement by
\* statement with a concurrent get_timer_state_details() whose read auto-freezes,
\* no call performs time arithmetic on an absent start_time: no handler that saw
\* the timer running later reads start_time as None in the same call, and no
\* operation fails with an error.
C24_NoCallRaises ==
    /\ mut.status # "raised"
    /\ rdr.status # "raised"

C25_Snapshot ==
    \/ JustCalled("get_timer_state_details")
    \/ JustCalled("get_timer_state_details_spanning")

\* C25: in every snapshot returned by get_timer_state_details(), the calls being
\* made one at a time, colour = STOPPED if and only if is_running = false and
\* is_frozen = false; a frozen or running snapshot carries RED, AMBER or GREEN.
C25_StoppedColourIffIdle ==
    C25_Snapshot =>
        /\ last.ret.color = "STOPPED"
              <=> (~last.ret.is_running /\ ~last.ret.is_frozen)
        /\ (last.ret.is_running \/ last.ret.is_frozen)
              => last.ret.color \in {"RED", "AMBER", "GREEN"}

\* A read that found the timer running and left it stopped: the auto-freeze.
C26_AutoFreeze ==
    /\ \/ JustCalled("calculate_remaining_ms")
       \/ JustCalled("get_timer_state_details")
       \/ JustCalled("get_timer_state_details_spanning")
    /\ Running(Pre)
    /\ ~Running(timer_state)

\* The instant at which the last snapshot began.
C26_SnapshotBegan ==
    IF JustCalled("get_timer_state_details_spanning")
    THEN now - last.arg[1] - last.arg[2]
    ELSE now

\* A timer that is not running and still loaded: only the auto-freeze stops a
\* timer without unloading it.
C26_StoppedLoaded(s) ==
    /\ ~Running(s)
    /\ s.total_duration_ms # 0 \/ s.target_end_time_ts # None

C26_OnlyFreezeFieldsChange ==
    C26_AutoFreeze =>
        /\ timer_state.total_duration_ms = Pre.total_duration_ms
        /\ timer_state.mode = Pre.mode
        /\ timer_state.target_end_time_ts = Pre.target_end_time_ts
        /\ timer_state.allow_negative = Pre.allow_negative
        /\ ~Pre.allow_negative
        /\ timer_state.frozen_remaining_ms = 0
        /\ timer_state.frozen_color = "RED"
        /\ timer_state.frozen_end_time_ts # None
        /\ ~JustCalled("get_timer_state_details_spanning") =>
              Val(timer_state.frozen_end_time_ts) =
                  now + FROZEN_DURATION_SECONDS * TicksPerSec

C26_SnapshotAfterHold ==
    ( /\ C25_Snapshot
      /\ C26_StoppedLoaded(Pre)
      /\ Frozen(Pre)
      /\ C26_SnapshotBegan >= Val(Pre.frozen_end_time_ts) ) =>
        /\ last.ret.remaining_ms = Pre.total_duration_ms
        /\ last.ret.color = "STOPPED"
        /\ ~last.ret.is_frozen
        /\ ~last.ret.is_running
        /\ timer_state = clear_frozen_display(Pre)

C26_StartRestarts ==
    (JustCalled("start_timer") /\ C26_StoppedLoaded(Pre)) =>
        /\ last.ret = TRUE
        /\ timer_state.start_time = Some(now)
        /\ ~Frozen(timer_state)
        /\ timer_state.total_duration_ms = Pre.total_duration_ms
        /\ timer_state.mode = Pre.mode
        /\ timer_state.target_end_time_ts = Pre.target_end_time_ts
        /\ timer_state.allow_negative = Pre.allow_negative
        /\ Pre.mode = "Duration" =>
              calculate_remaining_ms(timer_state, now).ret = Pre.total_duration_ms

\* C26: the auto-freeze changes only start_time and the three freeze fields
\* (total_duration_ms, mode, target_end_time_ts and allow_negative stay); a
\* snapshot begun after the 10 s hold has ended reports remaining_ms = the
\* loaded total_duration_ms with colour STOPPED; and start_timer() then returns
\* True and restarts the countdown from now.
C26_AutoFreezeKeepsLoad ==
    /\ C26_OnlyFreezeFieldsChange
    /\ C26_SnapshotAfterHold
    /\ C26_StartRestarts

\* A 10 s timer restarted after its auto-freeze and the hold have passed.
C26_Witness ==
    /\ JustCalled("start_timer")
    /\ C26_StoppedLoaded(Pre)
    /\ ~Frozen(Pre)
    /\ Pre.total_duration_ms = 10000
    /\ ~Pre.allow_negative
    /\ last.ret = TRUE
    /\ now >= ClockStart + 2 * HoldTicks

C26_WitnessFreeze ==
    /\ C26_AutoFreeze
    /\ Pre.mode = "Absolute"

C26_WitnessSnapshot ==
    /\ JustCalled("get_timer_state_details")
    /\ C26_StoppedLoaded(Pre)
    /\ Frozen(Pre)
    /\ now >= Val(Pre.frozen_end_time_ts)
    /\ last.ret.remaining_ms = 10000

====
